---------------------------- MODULE Spec2Model ----------------------------
(***************************************************************************)
(* gargle: the Maybe (Some / Nothing) and Result (Ok / Err) containers of  *)
(* src/gargle/maybe.py and src/gargle/result.py.                           *)
(*                                                                         *)
(* The library is pure, so the state is that of a client expression being  *)
(* evaluated: a subject, the calls made on it so far, the value the last   *)
(* call was made on, its outcome (a returned value or a raised exception), *)
(* the log of the caller-supplied callables the last call invoked, and the *)
(* number of elements the last call pulled from its iterable.              *)
(***************************************************************************)
EXTENDS Integers, Sequences, FiniteSets, TLC

VARIABLES subject, hist, recv, out, calls, taken

vars == <<subject, hist, recv, out, calls, taken>>

(***************************************************************************)
(* Bounds of the model.                                                    *)
(***************************************************************************)
\* integer payloads are 0 .. MaxInt
MaxInt == 1
\* lists and iterables hold at most MaxLen elements
MaxLen == 2
\* a client expression chains at most MaxChain method calls
MaxChain == 2

(***************************************************************************)
(* Python values.  Every value is a record tagged by k; equality of the    *)
(* records is Python's ==: structural for ints, strings, None, lists,      *)
(* dicts and the frozen dataclasses Some / Nothing / Ok / Err, identity    *)
(* (the id field) for exception objects.                                   *)
(***************************************************************************)
IntV(n) == [k |-> "int", n |-> n]

StrV(s) == [k |-> "str", s |-> s]

NoneV == [k |-> "None"]

ListV(items) == [k |-> "list", items |-> items]

DictV(map) == [k |-> "dict", map |-> map]

\* a class object, as passed for `exc` or `excs_to_catch`
TypeV(cls) == [k |-> "type", cls |-> cls]

\* a tuple of class objects
TupleV(items) == [k |-> "tuple", items |-> items]

\* an exception instance cls(arg); id 0 is an object built during the call
ExcV(cls, arg, id) == [k |-> "exc", cls |-> cls, arg |-> arg, id |-> id]

\* a zero-argument callable, `lambda: ret`
ThunkV(ret) == [k |-> "thunk", ret |-> ret]

\* a zero-argument callable that raises cls("boom")
RaiserV(cls) == [k |-> "raiser", cls |-> cls]

\* a one-argument callable named fn
FuncV(fn) == [k |-> "func", fn |-> fn]

\* `lambda v: v[key]`
GetItemV(key) == [k |-> "func", fn |-> "getitem", key |-> key]

\* `lambda a: second(first(a))`
ComposeV(first, second) ==
    [k |-> "func", fn |-> "compose", first |-> first, second |-> second]

\* `lambda v: first(v).and_then(second)`
BindThenV(first, second) ==
    [k |-> "func", fn |-> "bind_then", first |-> first, second |-> second]

\* float("nan"), an object that is not equal to itself; id tells one nan
\* object from another (id 0 is an object built during the call)
NanV(id) == [k |-> "nan", id |-> id]

\* True / False
BoolV(b) == [k |-> "bool", b |-> b]

Some(value) == [k |-> "Some", val |-> value]

Nothing == [k |-> "Nothing"]

Ok(value) == [k |-> "Ok", val |-> value]

Err(value) == [k |-> "Err", val |-> value]

IsMaybe(v) == v.k \in {"Some", "Nothing"}

IsResult(v) == v.k \in {"Ok", "Err"}

(***************************************************************************)
(* Outcomes of a call, and what a call did besides.                        *)
(***************************************************************************)
Ret(v) == [k |-> "ret", val |-> v]

Raise(e) == [k |-> "raise", exc |-> e]

\* the effect of a call: its outcome, the callables it invoked, in order,
\* and the number of elements it took from its iterable
Eff(o, log, n) == [out |-> o, calls |-> log, taken |-> n]

(***************************************************************************)
(* The exception classes the library meets, with Python's hierarchy.       *)
(***************************************************************************)
ExcParent ==
    [c \in {"BaseException", "KeyboardInterrupt", "Exception", "LookupError",
            "IndexError", "KeyError", "TypeError", "ValueError",
            "ZeroDivisionError", "UnwrapError"} |->
        CASE c = "BaseException" -> "BaseException"
          [] c = "KeyboardInterrupt" -> "BaseException"
          [] c = "Exception" -> "BaseException"
          [] c = "LookupError" -> "Exception"
          [] c = "IndexError" -> "LookupError"
          [] c = "KeyError" -> "LookupError"
          [] c = "TypeError" -> "Exception"
          [] c = "ValueError" -> "Exception"
          [] c = "ZeroDivisionError" -> "Exception"
          [] c = "UnwrapError" -> "Exception"]

ExcClasses == DOMAIN ExcParent

RECURSIVE IsSubclass(_, _)
IsSubclass(c, d) ==
    IF c = d THEN TRUE
    ELSE IF ExcParent[c] = c THEN FALSE
    ELSE IsSubclass(ExcParent[c], d)

\* `except catch as exc`: catch is one class or a tuple of classes
Catches(catch, e) ==
    IF catch.k = "type" THEN IsSubclass(e.cls, catch.cls)
    ELSE \E i \in 1..Len(catch.items) : IsSubclass(e.cls, catch.items[i].cls)

\* `raise obj`: only exception instances can be raised
PyRaise(obj) ==
    IF obj.k = "exc" THEN Raise(obj)
    ELSE Raise(ExcV("TypeError", StrV("exceptions must derive from BaseException"), 0))

\* `callable(v)`
Callable(v) == v.k \in {"thunk", "raiser", "func", "type"}

\* `bool(v)`, the truth test of `if` and of conditional expressions
Truthy(v) ==
    CASE v.k = "bool" -> v.b
      [] v = NoneV -> FALSE
      [] v.k = "int" -> v.n # 0
      [] v.k = "str" -> v.s # ""
      [] v.k \in {"list", "tuple"} -> v.items # <<>>
      [] v.k = "dict" -> DOMAIN v.map # {}
      [] OTHER -> TRUE

\* a number: an int or a float
IsNum(v) == v.k \in {"int", "nan"}

\* `a + b` on numbers: nan when either operand is
Add(a, b) == IF a.k = "int" /\ b.k = "int" THEN IntV(a.n + b.n) ELSE NanV(0)

\* `v[key]`
Index(v, key) ==
    CASE v.k = "list" ->
           IF key.k # "int"
           THEN Raise(ExcV("TypeError", StrV("list indices must be integers"), 0))
           ELSE IF key.n >= 0 /\ key.n < Len(v.items) THEN Ret(v.items[key.n + 1])
           ELSE IF key.n < 0 /\ key.n >= 0 - Len(v.items)
                THEN Ret(v.items[Len(v.items) + key.n + 1])
           ELSE Raise(ExcV("IndexError", StrV("list index out of range"), 0))
      [] v.k = "dict" ->
           IF key.k \in {"list", "dict"}
           THEN Raise(ExcV("TypeError", StrV("unhashable type"), 0))
           ELSE IF key \in DOMAIN v.map THEN Ret(v.map[key])
           ELSE Raise(ExcV("KeyError", key, 0))
      [] v.k = "str" ->
           \* the strings that are indexed are those of StrSubjects, one character
           IF key.k # "int"
           THEN Raise(ExcV("TypeError", StrV("string indices must be integers"), 0))
           ELSE IF key.n \in {0, 0 - 1} THEN Ret(v)
           ELSE Raise(ExcV("IndexError", StrV("string index out of range"), 0))
      [] OTHER -> Raise(ExcV("TypeError", StrV("object is not subscriptable"), 0))

\* and_then on a Maybe and on a Result, defined with the methods below
RECURSIVE Maybe_and_then(_, _)
RECURSIVE Result_and_then(_, _)

\* `f(v)` for the one-argument callables of the model
RECURSIVE Call(_, _)
Call(f, v) ==
    CASE f.fn = "identity" -> Ret(v)
      [] f.fn = "inc" ->
           IF IsNum(v) THEN Ret(Add(v, IntV(1)))
           ELSE Raise(ExcV("TypeError", StrV("unsupported operand"), 0))
      [] f.fn = "neg" ->
           IF v.k = "int" THEN Ret(IntV(0 - v.n))
           ELSE IF v.k = "nan" THEN Ret(NanV(0))
           ELSE Raise(ExcV("TypeError", StrV("bad operand type"), 0))
      [] f.fn = "to_none" -> Ret(NoneV)
      [] f.fn = "wrap_ok" -> Ret(Ok(v))
      [] f.fn = "wrap_err" -> Ret(Err(v))
      [] f.fn = "raise_arg" -> PyRaise(v)
      [] f.fn = "is_int" -> Ret(BoolV(v.k = "int"))
      [] f.fn = "positive" ->
           IF v.k = "int" THEN Ret(BoolV(v.n > 0))
           ELSE IF v.k = "nan" THEN Ret(BoolV(FALSE))
           ELSE Raise(ExcV("TypeError", StrV("'>' not supported"), 0))
      [] f.fn = "wrap_some" -> Ret(Some(v))
      [] f.fn = "to_nothing" -> Ret(Nothing)
      [] f.fn = "some_inc" ->
           IF IsNum(v) THEN Ret(Some(Add(v, IntV(1))))
           ELSE Raise(ExcV("TypeError", StrV("unsupported operand"), 0))
      [] f.fn = "ok_inc" ->
           IF IsNum(v) THEN Ret(Ok(Add(v, IntV(1))))
           ELSE Raise(ExcV("TypeError", StrV("unsupported operand"), 0))
      [] f.fn = "getitem" -> Index(v, f.key)
      [] f.fn = "compose" ->
           LET r == Call(f.first, v)
           IN  IF r.k = "raise" THEN r ELSE Call(f.second, r.val)
      [] f.fn = "bind_then" ->
           LET r == Call(f.first, v)
           IN  IF r.k = "raise" THEN r
               ELSE IF IsMaybe(r.val) THEN Maybe_and_then(r.val, f.second).out
               ELSE IF IsResult(r.val) THEN Result_and_then(r.val, f.second).out
               ELSE Raise(ExcV("AttributeError", StrV("and_then"), 0))

\* `f(*args)` for the callables of the model that take several arguments:
\* pack is `lambda *a: a` and add2 is `lambda a, b: a + b`
CallN(f, args) ==
    CASE f.fn = "pack" -> Ret(TupleV(args))
      [] f.fn = "add2" ->
           IF Len(args) # 2
           THEN Raise(ExcV("TypeError", StrV("wrong number of arguments"), 0))
           ELSE IF IsNum(args[1]) /\ IsNum(args[2])
                THEN Ret(Add(args[1], args[2]))
           ELSE Raise(ExcV("TypeError", StrV("unsupported operand"), 0))

\* `for x in v` over a list or a tuple; the other values of the model that
\* reach it are not iterable
Iter(v) ==
    IF v.k \in {"list", "tuple"} THEN Ret(v.items)
    ELSE Raise(ExcV("TypeError", StrV("object is not iterable"), 0))

RECURSIVE PyEq(_, _)
RECURSIVE dataclass_eq(_, _)

\* the comparison of two items of a list, tuple or dict: an object is equal
\* to itself without `==` being asked (identity is held by nan and exceptions)
ItemEq(x, y) == (x.k \in {"nan", "exc"} /\ x = y) \/ PyEq(x, y)

\* `a == b` on two tuples (or two lists) of items
SeqEq(a, b) == Len(a) = Len(b) /\ \A i \in 1..Len(a) : ItemEq(a[i], b[i])

\* an __eq__ that compares the payloads whatever the two classes are
dataclass_eq_anyclass(self, other) ==
    IF self.k = "Nothing" \/ other.k = "Nothing" THEN self.k = other.k
    ELSE SeqEq(<<self.val>>, <<other.val>>)

\* the __eq__ that @dataclass generates for Some, Nothing, Ok and Err: with
\* `other.__class__ is self.__class__` the fields are compared as tuples,
\* `(self._value,) == (other._value,)` and `() == ()` for Nothing; otherwise
\* it is NotImplemented on both sides and `==` ends in identity, False
dataclass_eq(self, other) ==
    IF other.k # self.k THEN FALSE
    ELSE IF self.k = "Nothing" THEN TRUE
    ELSE SeqEq(<<self.val>>, <<other.val>>)

\* `a == b` on the values of the model: numbers (True is 1), None and
\* strings by value, nan equal to nothing, lists and tuples item by item,
\* dicts key by key, the four containers by their __eq__, and exceptions
\* and callables by the default `==`, identity
PyEq(a, b) ==
    CASE a.k = "nan" \/ b.k = "nan" -> FALSE
      [] a.k \in {"int", "bool"} /\ b.k \in {"int", "bool"} ->
           (IF a.k = "int" THEN a.n ELSE IF a.b THEN 1 ELSE 0)
             = (IF b.k = "int" THEN b.n ELSE IF b.b THEN 1 ELSE 0)
      [] a.k \in {"Some", "Nothing", "Ok", "Err"} -> dataclass_eq(a, b)
      [] a.k # b.k -> FALSE
      [] a.k \in {"list", "tuple"} -> SeqEq(a.items, b.items)
      [] a.k = "dict" ->
           /\ DOMAIN a.map = DOMAIN b.map
           /\ \A key \in DOMAIN a.map : ItemEq(a.map[key], b.map[key])
      [] OTHER -> a = b

\* `c()` for the zero-argument callables of the model
CallNullary(c) ==
    IF c.k = "thunk" THEN Ret(c.ret)
    ELSE IF c.k = "raiser" THEN Raise(ExcV(c.cls, StrV("boom"), 0))
    ELSE Raise(ExcV("TypeError", StrV("missing required positional argument"), 0))


(***************************************************************************)
(* src/gargle/maybe.py                                                     *)
(***************************************************************************)
\* a Some.map that turns a None result into Nothing, as and_then_opt does
Some_map_flat(self, func) ==
    LET r == Call(func, self.val)
    IN  IF r.k = "raise" THEN Eff(r, <<"func">>, 0)
        ELSE IF r.val = NoneV THEN Eff(Ret(Nothing), <<"func">>, 0)
        ELSE Eff(Ret(Some(r.val)), <<"func">>, 0)

\* Some.map: `return Some(func(self._value))`
Some_map(self, func) ==
    LET r == Call(func, self.val)
    IN  IF r.k = "raise" THEN Eff(r, <<"func">>, 0)
        ELSE Eff(Ret(Some(r.val)), <<"func">>, 0)

\* a Nothing.map that evaluates func(None) before dropping the result
Nothing_map_eager(self, func) ==
    LET r == Call(func, NoneV)
    IN  IF r.k = "raise" THEN Eff(r, <<"func">>, 0)
        ELSE Eff(Ret(Nothing), <<"func">>, 0)

\* Nothing.map: `return Nothing()`
Nothing_map(self, func) == Eff(Ret(Nothing), <<>>, 0)

\* a Some.get that catches what maybe_get catches, (KeyError, IndexError)
Some_get_lookup_only(self, key) ==
    LET r == Some_map(self, GetItemV(key)).out
    IN  IF r.k = "raise"
           /\ Catches(TupleV(<<TypeV("KeyError"), TypeV("IndexError")>>), r.exc)
        THEN Eff(Ret(Nothing), <<>>, 0)
        ELSE Eff(r, <<>>, 0)

\* Some.get: `try: return self.map(lambda v: v[key])`
\*           `except (IndexError, KeyError, TypeError): return Nothing()`
Some_get(self, key) ==
    LET r == Some_map(self, GetItemV(key)).out
    IN  IF r.k = "raise"
           /\ Catches(TupleV(<<TypeV("IndexError"), TypeV("KeyError"),
                               TypeV("TypeError")>>), r.exc)
        THEN Eff(Ret(Nothing), <<>>, 0)
        ELSE Eff(r, <<>>, 0)

\* Nothing.get: `return Nothing()`
Nothing_get(self, key) == Eff(Ret(Nothing), <<>>, 0)

\* Some.ok_or: `return result.Ok(self._value)`
Some_ok_or(self, err) == Eff(Ret(Ok(self.val)), <<>>, 0)

\* Nothing.ok_or: `return result.Err(err()) if callable(err) else result.Err(err)`
Nothing_ok_or(self, err) ==
    IF Callable(err)
    THEN LET r == CallNullary(err)
         IN  IF r.k = "raise" THEN Eff(r, <<"err">>, 0)
             ELSE Eff(Ret(Err(r.val)), <<"err">>, 0)
    ELSE Eff(Ret(Err(err)), <<>>, 0)

\* maybe_get: `try: return Some(some_seq[key])`
\*            `except (KeyError, IndexError): return Nothing()`
maybe_get(some_seq, key) ==
    LET r == Index(some_seq, key)
    IN  IF r.k = "raise"
        THEN IF Catches(TupleV(<<TypeV("KeyError"), TypeV("IndexError")>>), r.exc)
             THEN Eff(Ret(Nothing), <<>>, 0)
             ELSE Eff(r, <<>>, 0)
        ELSE Eff(Ret(Some(r.val)), <<>>, 0)

\* a loop that drops the Nothing elements, as cat_maybes does
RECURSIVE sequence_loop_skip(_, _, _)
sequence_loop_skip(items, i, res) ==
    IF i > Len(items) THEN Eff(Ret(Some(ListV(res))), <<>>, Len(items))
    ELSE IF items[i].k = "Some"
         THEN sequence_loop_skip(items, i + 1, Append(res, items[i].val))
    ELSE sequence_loop_skip(items, i + 1, res)

\* the `for mayb in mayb_iter` loop of sequence, from element i on, with the
\* values gathered so far in res
RECURSIVE sequence_loop(_, _, _)
sequence_loop(items, i, res) ==
    IF i > Len(items) THEN Eff(Ret(Some(ListV(res))), <<>>, Len(items))
    ELSE IF items[i].k = "Some" THEN sequence_loop(items, i + 1, Append(res, items[i].val))
    ELSE IF items[i].k = "Nothing" THEN Eff(Ret(Nothing), <<>>, i)
    ELSE sequence_loop(items, i + 1, res)

\* a sequence that takes every element of the iterable before it looks at one
sequence_drained(mayb_iter) ==
    LET e == sequence_loop(mayb_iter.items, 1, <<>>)
    IN  Eff(e.out, e.calls, Len(mayb_iter.items))

\* sequence: `res = []`, the loop, `return Some(res)`
sequence(mayb_iter) == sequence_loop(mayb_iter.items, 1, <<>>)

\* Some.from_maybe: `return self._value`
Some_from_maybe(self, default) == Eff(Ret(self.val), <<>>, 0)

\* a Nothing.from_maybe that returns default as it is, a callable uncalled
Nothing_from_maybe_uncalled(self, default) == Eff(Ret(default), <<>>, 0)

\* Nothing.from_maybe: `default() if callable(default) else default`
Nothing_from_maybe(self, default) ==
    IF Callable(default) THEN Eff(CallNullary(default), <<"default">>, 0)
    ELSE Eff(Ret(default), <<>>, 0)

\* the function from_maybe(maybe_value, default=None): Some(value) gives
\* value, Nothing() with `default is None` gives None, Nothing() otherwise
\* gives `default()` for a callable default and default for any other
from_maybe(maybe_value, default) ==
    IF maybe_value.k = "Some" THEN Eff(Ret(maybe_value.val), <<>>, 0)
    ELSE IF default = NoneV THEN Eff(Ret(NoneV), <<>>, 0)
    ELSE IF Callable(default) THEN Eff(CallNullary(default), <<"default">>, 0)
    ELSE Eff(Ret(default), <<>>, 0)

\* an as_maybe that tests the truth of value instead of `value is None`
as_maybe_falsy(value) ==
    IF value \in {NoneV, IntV(0), ListV(<<>>), DictV(<<>>)}
    THEN Eff(Ret(Nothing), <<>>, 0)
    ELSE Eff(Ret(Some(value)), <<>>, 0)

\* as_maybe(value): Nothing() if `value is None`, else Some(value)
as_maybe(value) ==
    IF value = NoneV THEN Eff(Ret(Nothing), <<>>, 0)
    ELSE Eff(Ret(Some(value)), <<>>, 0)

\* _MaybeInternal.is_nothing: isinstance(self, Nothing)
is_nothing(self) == Eff(Ret(BoolV(self.k = "Nothing")), <<>>, 0)

\* _MaybeInternal.is_some: isinstance(self, Some)
is_some(self) == Eff(Ret(BoolV(self.k = "Some")), <<>>, 0)

\* a Some.xor that keeps its value whatever the other operand is
Some_xor_keep(self, mayb) == Eff(Ret(Some(self.val)), <<>>, 0)

\* Some.xor: `match mayb`: Nothing() gives Some(self._value), anything else
\* gives Nothing()
Some_xor(self, mayb) ==
    IF mayb.k = "Nothing" THEN Eff(Ret(Some(self.val)), <<>>, 0)
    ELSE Eff(Ret(Nothing), <<>>, 0)

\* Nothing.xor: `match mayb`: Some(value) gives Some(value), anything else
\* gives Nothing()
Nothing_xor(self, mayb) ==
    IF mayb.k = "Some" THEN Eff(Ret(Some(mayb.val)), <<>>, 0)
    ELSE Eff(Ret(Nothing), <<>>, 0)

\* a Some.zip that leaves its own value out of the tuple
Some_zip_others(self, maybs) ==
    LET s == sequence(ListV(maybs))
    IN  IF s.out.val.k = "Some"
        THEN Eff(Ret(Some(TupleV(s.out.val.val.items))), <<>>, s.taken)
        ELSE Eff(Ret(Nothing), <<>>, s.taken)

\* Some.zip(*maybs): `match sequence(maybs)`: Some(values) gives
\* Some((self._value, *values)), Nothing() gives Nothing()
Some_zip(self, maybs) ==
    LET s == sequence(ListV(maybs))
    IN  IF s.out.val.k = "Some"
        THEN Eff(Ret(Some(TupleV(<<self.val>> \o s.out.val.val.items))),
                 <<>>, s.taken)
        ELSE Eff(Ret(Nothing), <<>>, s.taken)

\* Nothing.zip(*maybs): `return Nothing()`
Nothing_zip(self, maybs) == Eff(Ret(Nothing), <<>>, 0)

\* a Some.filter that keeps the values the predicate rejects
Some_filter_not(self, predicate) ==
    LET r == Call(predicate, self.val)
    IN  IF r.k = "raise" THEN Eff(r, <<"predicate">>, 0)
        ELSE IF Truthy(r.val) THEN Eff(Ret(Nothing), <<"predicate">>, 0)
        ELSE Eff(Ret(Some(self.val)), <<"predicate">>, 0)

\* Some.filter: `Some(self._value) if predicate(self._value) else Nothing()`
Some_filter(self, predicate) ==
    LET r == Call(predicate, self.val)
    IN  IF r.k = "raise" THEN Eff(r, <<"predicate">>, 0)
        ELSE IF Truthy(r.val) THEN Eff(Ret(Some(self.val)), <<"predicate">>, 0)
        ELSE Eff(Ret(Nothing), <<"predicate">>, 0)

\* Nothing.filter: `return Nothing()`
Nothing_filter(self, predicate) == Eff(Ret(Nothing), <<>>, 0)

\* Some.map_or: `return func(self._value)`
Some_map_or(self, func, default) == Eff(Call(func, self.val), <<"func">>, 0)

\* Nothing.map_or: `return default() if callable(default) else default`
Nothing_map_or(self, func, default) ==
    IF Callable(default) THEN Eff(CallNullary(default), <<"default">>, 0)
    ELSE Eff(Ret(default), <<>>, 0)

\* Some.and_: `return mayb`
Some_and_(self, mayb) == Eff(Ret(mayb), <<>>, 0)

\* Nothing.and_: `return Nothing()`
Nothing_and_(self, mayb) == Eff(Ret(Nothing), <<>>, 0)

\* a Some.and_then that wraps what func returns in a Some, as map does
Some_and_then_mapped(self, func) ==
    LET r == Call(func, self.val)
    IN  IF r.k = "raise" THEN Eff(r, <<"func">>, 0)
        ELSE Eff(Ret(Some(r.val)), <<"func">>, 0)

\* Some.and_then: `return func(self._value)`
Some_and_then(self, func) == Eff(Call(func, self.val), <<"func">>, 0)

\* a Nothing.and_then that calls func all the same, on None
Nothing_and_then_eager(self, func) == Eff(Call(func, NoneV), <<"func">>, 0)

\* Nothing.and_then: `return Nothing()`
Nothing_and_then(self, func) == Eff(Ret(Nothing), <<>>, 0)

\* Some.and_then_opt: `return as_maybe(func(self._value))`
Some_and_then_opt(self, func) ==
    LET r == Call(func, self.val)
    IN  IF r.k = "raise" THEN Eff(r, <<"func">>, 0)
        ELSE Eff(as_maybe(r.val).out, <<"func">>, 0)

\* Nothing.and_then_opt: `return Nothing()`
Nothing_and_then_opt(self, func) == Eff(Ret(Nothing), <<>>, 0)

\* a Some.or_ that evaluates a callable alternative before it returns
Some_or_eager(self, mayb) ==
    IF Callable(mayb)
    THEN LET r == CallNullary(mayb)
         IN  IF r.k = "raise" THEN Eff(r, <<"mayb">>, 0)
             ELSE Eff(Ret(Some(self.val)), <<"mayb">>, 0)
    ELSE Eff(Ret(Some(self.val)), <<>>, 0)

\* Some.or_: `return Some(self._value)`
Some_or_(self, mayb) == Eff(Ret(Some(self.val)), <<>>, 0)

\* Nothing.or_: `return mayb() if callable(mayb) else mayb`
Nothing_or_(self, mayb) ==
    IF Callable(mayb) THEN Eff(CallNullary(mayb), <<"mayb">>, 0)
    ELSE Eff(Ret(mayb), <<>>, 0)

\* Some.zip_with: `return self.zip(*maybs).map(lambda values: func(*values))`
Some_zip_with(self, func, maybs) ==
    LET z == Some_zip(self, maybs)
    IN  IF z.out.val.k = "Some"
        THEN LET r == CallN(func, z.out.val.val.items)
             IN  IF r.k = "raise" THEN Eff(r, <<"func">>, z.taken)
                 ELSE Eff(Ret(Some(r.val)), <<"func">>, z.taken)
        ELSE Eff(Ret(Nothing), <<>>, z.taken)

\* Nothing.zip_with: `return Nothing()`
Nothing_zip_with(self, func, maybs) == Eff(Ret(Nothing), <<>>, 0)

\* Some.unzip: `tuple(Some(value) for value in self._value)`
Some_unzip(self) ==
    LET it == Iter(self.val)
    IN  IF it.k = "raise" THEN Eff(it, <<>>, 0)
        ELSE Eff(Ret(TupleV([i \in 1..Len(it.val) |-> Some(it.val[i])])), <<>>, 0)

\* Nothing.unzip: `return (Nothing(), Nothing())`
Nothing_unzip(self) == Eff(Ret(TupleV(<<Nothing, Nothing>>)), <<>>, 0)

\* as_maybe_flat(value): a Some or a Nothing is returned as it is, any
\* other value goes through as_maybe
as_maybe_flat(value) ==
    IF IsMaybe(value) THEN Eff(Ret(value), <<>>, 0) ELSE as_maybe(value)

\* `sub_field.validate(v, {}, loc="maybe_value")`, the validation of a payload
\* against the payload type tp of the field, as the validation framework
\* does it for int and str: <<valid_value, error>>, error None when valid.
\* None is not a value of either type; an int is a valid str, as its digits.
sub_field_validate(tp, v) ==
    CASE v = NoneV -> <<NoneV, StrV("none is not an allowed value")>>
      [] tp = "int" ->
           IF v.k = "int" THEN <<v, NoneV>>
           ELSE <<NoneV, StrV("value is not a valid integer")>>
      [] tp = "str" ->
           IF v.k = "str" THEN <<v, NoneV>>
           ELSE IF v.k = "int" THEN <<StrV(ToString(v.n)), NoneV>>
           ELSE <<NoneV, StrV("str type expected")>>

\* a _pydantic_validate that reports the payload error for both classes of
\* the union
pydantic_validate_both(cls, value, sub_fields) ==
    LET m == as_maybe_flat(value).out.val
    IN  IF sub_fields = <<>> \/ m.k = "Nothing" THEN Eff(Ret(m), <<>>, 0)
        ELSE LET r == sub_field_validate(sub_fields[1], m.val)
             IN  IF r[2] # NoneV
                 THEN Eff(Raise(ExcV("ValidationError", ListV(<<r[2]>>), 0)),
                          <<>>, 0)
                 ELSE as_maybe(r[1])

\* _MaybeInternal._pydantic_validate(cls, value, field), cls being the class
\* of the Maybe union the field validates for (field.type_) and sub_fields
\* the payload types of the field: the value goes through as_maybe_flat; with
\* no payload type, or for Nothing, it is returned; otherwise the payload is
\* validated and as_maybe of the valid payload is returned.  A payload error
\* raises ValidationError, holding the error for Some and no error for
\* Nothing.
pydantic_validate(cls, value, sub_fields) ==
    LET m == as_maybe_flat(value).out.val
    IN  IF sub_fields = <<>> \/ m.k = "Nothing" THEN Eff(Ret(m), <<>>, 0)
        ELSE LET r == sub_field_validate(sub_fields[1], m.val)
             IN  IF r[2] # NoneV
                 THEN Eff(Raise(ExcV("ValidationError",
                                     ListV(IF cls = "Some" THEN <<r[2]>> ELSE <<>>),
                                     0)),
                          <<>>, 0)
                 ELSE as_maybe(r[1])

\* the validation of one field of type Maybe[tp] of a model whose metaclass
\* is OptionalAsMaybe: the pre-validator `Nothing() if v is None else v`,
\* then the validator of each class of the union, Some and Nothing; the
\* first that returns gives the field, and when both raise the field fails
\* with the errors of both
validate_field(v, sub_fields) ==
    LET pre == IF v = NoneV THEN Nothing ELSE v
        s == pydantic_validate("Some", pre, sub_fields)
        n == pydantic_validate("Nothing", pre, sub_fields)
    IN  IF s.out.k = "ret" THEN s
        ELSE IF n.out.k = "ret" THEN n
        ELSE Eff(Raise(ExcV("ValidationError",
                            ListV(s.out.exc.arg.items \o n.out.exc.arg.items), 0)),
                 <<>>, 0)

\* a maybe_next that wraps the element with as_maybe
maybe_next_flat(it) ==
    LET items == Iter(it)
    IN  IF items.k = "raise" THEN Eff(items, <<>>, 0)
        ELSE IF items.val = <<>> THEN Eff(Ret(Nothing), <<>>, 0)
        ELSE Eff(as_maybe(items.val[1]).out, <<>>, 1)

\* maybe_next(it): `Some(next(i for i in it))`, one element taken from it, and
\* Nothing() on the StopIteration of an `it` that has none; `i for i in it`
\* raises TypeError at once for an `it` that is not iterable
maybe_next(it) ==
    LET items == Iter(it)
    IN  IF items.k = "raise" THEN Eff(items, <<>>, 0)
        ELSE IF items.val = <<>> THEN Eff(Ret(Nothing), <<>>, 0)
        ELSE Eff(Ret(Some(items.val[1])), <<>>, 1)

(***************************************************************************)
(* src/gargle/result.py                                                    *)
(***************************************************************************)
\* an unwrap that ignores exc and always raises UnwrapError(err)
unwrap_default_only(self, exc) ==
    IF self.k = "Ok" THEN Eff(Ret(self.val), <<>>, 0)
    ELSE Eff(PyRaise(ExcV("UnwrapError", self.val, 0)), <<>>, 0)

\* _ResultInternal.unwrap: Ok(value) returns value; Err(err) raises exc(err)
\* when exc is not None and UnwrapError(err) otherwise
unwrap(self, exc) ==
    IF self.k = "Ok" THEN Eff(Ret(self.val), <<>>, 0)
    ELSE IF exc # NoneV THEN Eff(PyRaise(ExcV(exc.cls, self.val, 0)), <<>>, 0)
    ELSE Eff(PyRaise(ExcV("UnwrapError", self.val, 0)), <<>>, 0)

\* Ok.unwrap_raise: `return self._value`
Ok_unwrap_raise(self) == Eff(Ret(self.val), <<>>, 0)

\* an Err.unwrap_raise that raises UnwrapError(self._value), as unwrap does
Err_unwrap_raise_wrapped(self) ==
    Eff(PyRaise(ExcV("UnwrapError", self.val, 0)), <<>>, 0)

\* Err.unwrap_raise: `raise self._value`
Err_unwrap_raise(self) == Eff(PyRaise(self.val), <<>>, 0)

\* Ok.map: `return Ok(func(self._value))`
Ok_map(self, func) ==
    LET r == Call(func, self.val)
    IN  IF r.k = "raise" THEN Eff(r, <<"func">>, 0)
        ELSE Eff(Ret(Ok(r.val)), <<"func">>, 0)

\* Err.map: `return Err(self._value)`
Err_map(self, func) == Eff(Ret(Err(self.val)), <<>>, 0)

\* an Ok.ok that goes through as_maybe, so that Ok(None) becomes Nothing
Ok_ok_as_maybe(self) ==
    IF self.val = NoneV THEN Eff(Ret(Nothing), <<>>, 0)
    ELSE Eff(Ret(Some(self.val)), <<>>, 0)

\* Ok.ok: `return maybe.Some(self._value)`
Ok_ok(self) == Eff(Ret(Some(self.val)), <<>>, 0)

\* Err.ok: `return maybe.Nothing()`
Err_ok(self) == Eff(Ret(Nothing), <<>>, 0)

\* a result_wrapped that wraps every returned value, an Ok or an Err included
result_wrapped_nest(func, arg) ==
    LET r == Call(func, arg)
    IN  IF r.k = "raise"
        THEN IF Catches(TypeV("Exception"), r.exc)
             THEN Eff(Ret(Err(r.exc)), <<"func">>, 0)
             ELSE Eff(r, <<"func">>, 0)
        ELSE Eff(Ret(Ok(r.val)), <<"func">>, 0)

\* result_wrapped(func)(arg): `try: res = func(arg)`, res itself when it is
\* an Ok or an Err and Ok(res) otherwise; `except Exception as exc: Err(exc)`
result_wrapped(func, arg) ==
    LET r == Call(func, arg)
    IN  IF r.k = "raise"
        THEN IF Catches(TypeV("Exception"), r.exc)
             THEN Eff(Ret(Err(r.exc)), <<"func">>, 0)
             ELSE Eff(r, <<"func">>, 0)
        ELSE IF IsResult(r.val) THEN Eff(r, <<"func">>, 0)
        ELSE Eff(Ret(Ok(r.val)), <<"func">>, 0)

\* a result_wrapped_for that catches Exception whatever excs_to_catch is
result_wrapped_for_any(excs_to_catch, func, arg) ==
    LET r == Call(func, arg)
    IN  IF r.k = "raise"
        THEN IF Catches(TypeV("Exception"), r.exc)
             THEN Eff(Ret(Err(r.exc)), <<"func">>, 0)
             ELSE Eff(r, <<"func">>, 0)
        ELSE Eff(Ret(Ok(r.val)), <<"func">>, 0)

\* result_wrapped_for(excs_to_catch)(func)(arg): `try: return Ok(func(arg))`
\* `except excs_to_catch as exc: return Err(exc)`
result_wrapped_for(excs_to_catch, func, arg) ==
    LET r == Call(func, arg)
    IN  IF r.k = "raise"
        THEN IF Catches(excs_to_catch, r.exc)
             THEN Eff(Ret(Err(r.exc)), <<"func">>, 0)
             ELSE Eff(r, <<"func">>, 0)
        ELSE Eff(Ret(Ok(r.val)), <<"func">>, 0)

\* an unwrap_or that returns default as it is, a callable uncalled
unwrap_or_uncalled(self, default) ==
    IF self.k = "Ok" THEN Eff(Ret(self.val), <<>>, 0)
    ELSE Eff(Ret(default), <<>>, 0)

\* _ResultInternal.unwrap_or: Ok(value) returns value; Err() returns
\* `default() if callable(default) else default`
unwrap_or(self, default) ==
    IF self.k = "Ok" THEN Eff(Ret(self.val), <<>>, 0)
    ELSE IF Callable(default) THEN Eff(CallNullary(default), <<"default">>, 0)
    ELSE Eff(Ret(default), <<>>, 0)

\* Ok.map_err: `return Ok(self._value)`
Ok_map_err(self, func) == Eff(Ret(Ok(self.val)), <<>>, 0)

\* an Err.map_err that leaves the payload as it is
Err_map_err_frame(self, func) == Eff(Ret(Err(self.val)), <<>>, 0)

\* Err.map_err: `return Err(func(self._value))`
Err_map_err(self, func) ==
    LET r == Call(func, self.val)
    IN  IF r.k = "raise" THEN Eff(r, <<"func">>, 0)
        ELSE Eff(Ret(Err(r.val)), <<"func">>, 0)

\* an Ok.filter_or that wraps err as it is, a callable uncalled
Ok_filter_or_uncalled(self, predicate, err) ==
    LET r == Call(predicate, self.val)
    IN  IF r.k = "raise" THEN Eff(r, <<"predicate">>, 0)
        ELSE IF Truthy(r.val) THEN Eff(Ret(Ok(self.val)), <<"predicate">>, 0)
        ELSE Eff(Ret(Err(err)), <<"predicate">>, 0)

\* Ok.filter_or: `Ok(self._value) if predicate(self._value) else
\* Err(err() if callable(err) else err)`
Ok_filter_or(self, predicate, err) ==
    LET r == Call(predicate, self.val)
    IN  IF r.k = "raise" THEN Eff(r, <<"predicate">>, 0)
        ELSE IF Truthy(r.val) THEN Eff(Ret(Ok(self.val)), <<"predicate">>, 0)
        ELSE IF Callable(err)
             THEN LET x == CallNullary(err)
                  IN  IF x.k = "raise" THEN Eff(x, <<"predicate", "err">>, 0)
                      ELSE Eff(Ret(Err(x.val)), <<"predicate", "err">>, 0)
        ELSE Eff(Ret(Err(err)), <<"predicate">>, 0)

\* Err.filter_or: `return Err(self._value)`
Err_filter_or(self, predicate, err) == Eff(Ret(Err(self.val)), <<>>, 0)

\* Ok.map_or: `return func(self._value)`
Ok_map_or(self, func, default) == Eff(Call(func, self.val), <<"func">>, 0)

\* Err.map_or: `return default() if callable(default) else default`
Err_map_or(self, func, default) ==
    IF Callable(default) THEN Eff(CallNullary(default), <<"default">>, 0)
    ELSE Eff(Ret(default), <<>>, 0)

\* Ok.and_: `return res`
Ok_and_(self, res) == Eff(Ret(res), <<>>, 0)

\* Err.and_: `return Err(self._value)`
Err_and_(self, res) == Eff(Ret(Err(self.val)), <<>>, 0)

\* Ok.and_then: `return func(self._value)`
Ok_and_then(self, func) == Eff(Call(func, self.val), <<"func">>, 0)

\* Err.and_then: `return Err(self._value)`
Err_and_then(self, func) == Eff(Ret(Err(self.val)), <<>>, 0)

\* Ok.or_: `return Ok(self._value)`
Ok_or_(self, res) == Eff(Ret(Ok(self.val)), <<>>, 0)

\* Err.or_: `return res() if callable(res) else res`
Err_or_(self, res) ==
    IF Callable(res) THEN Eff(CallNullary(res), <<"res">>, 0)
    ELSE Eff(Ret(res), <<>>, 0)

\* Ok.err: `return maybe.Nothing()`
Ok_err(self) == Eff(Ret(Nothing), <<>>, 0)

\* Err.err: `return maybe.Some(self._value)`
Err_err(self) == Eff(Ret(Some(self.val)), <<>>, 0)

\* Ok.either: `return ok_func(self._value)`
Ok_either(self, ok_func, err_func) ==
    Eff(Call(ok_func, self.val), <<"ok_func">>, 0)

\* Err.either: `return err_func(self._value)`
Err_either(self, ok_func, err_func) ==
    Eff(Call(err_func, self.val), <<"err_func">>, 0)

(***************************************************************************)
(* Method lookup on the two unions, `Maybe = Some | Nothing` and           *)
(* `Result = Ok | Err`: the receiver's class picks the method.             *)
(***************************************************************************)
Maybe_map(self, func) ==
    IF self.k = "Some" THEN Some_map(self, func) ELSE Nothing_map(self, func)

Maybe_get(self, key) ==
    IF self.k = "Some" THEN Some_get(self, key) ELSE Nothing_get(self, key)

Maybe_ok_or(self, err) ==
    IF self.k = "Some" THEN Some_ok_or(self, err) ELSE Nothing_ok_or(self, err)

Result_map(self, func) ==
    IF self.k = "Ok" THEN Ok_map(self, func) ELSE Err_map(self, func)

Result_ok(self) == IF self.k = "Ok" THEN Ok_ok(self) ELSE Err_ok(self)

Result_unwrap_raise(self) ==
    IF self.k = "Ok" THEN Ok_unwrap_raise(self) ELSE Err_unwrap_raise(self)

Maybe_from_maybe(self, default) ==
    IF self.k = "Some" THEN Some_from_maybe(self, default)
    ELSE Nothing_from_maybe(self, default)

Maybe_xor(self, mayb) ==
    IF self.k = "Some" THEN Some_xor(self, mayb) ELSE Nothing_xor(self, mayb)

Maybe_zip(self, maybs) ==
    IF self.k = "Some" THEN Some_zip(self, maybs) ELSE Nothing_zip(self, maybs)

Maybe_filter(self, predicate) ==
    IF self.k = "Some" THEN Some_filter(self, predicate)
    ELSE Nothing_filter(self, predicate)

Result_map_err(self, func) ==
    IF self.k = "Ok" THEN Ok_map_err(self, func) ELSE Err_map_err(self, func)

Result_filter_or(self, predicate, err) ==
    IF self.k = "Ok" THEN Ok_filter_or(self, predicate, err)
    ELSE Err_filter_or(self, predicate, err)

\* the public methods of Some and Nothing (with those of _MaybeInternal)
MaybeAttrs ==
    {"from_maybe", "is_nothing", "is_some", "map", "map_or", "and_", "and_then",
     "and_then_opt", "get", "filter", "or_", "xor", "zip", "zip_with", "unzip",
     "ok_or"}

\* the public methods of Ok and Err (with those of _ResultInternal)
ResultAttrs ==
    {"unwrap", "unwrap_or", "unwrap_raise", "map", "map_or", "map_err", "and_",
     "and_then", "or_", "ok", "err", "either", "filter_or"}

\* `self.name`: a bound method, or AttributeError when the class has none
GetAttr(self, name) ==
    IF name \in (IF IsMaybe(self) THEN MaybeAttrs ELSE ResultAttrs)
    THEN Ret([k |-> "method", self |-> self, name |-> name])
    ELSE Raise(ExcV("AttributeError", StrV(name), 0))

\* an apply as the Applicative protocol describes one, were it implemented:
\* the function inside func applied inside the receiver
apply_as_declared(self, func) ==
    IF self.k \in {"Nothing", "Err"} THEN Eff(Ret(self), <<>>, 0)
    ELSE IF func.k \in {"Nothing", "Err"} THEN Eff(Ret(func), <<>>, 0)
    ELSE LET r == Call(func.val, self.val)
         IN  IF r.k = "raise" THEN Eff(r, <<"func">>, 0)
             ELSE Eff(Ret([self EXCEPT !.val = r.val]), <<"func">>, 0)

\* `self.apply(func)`: the lookup of apply on self comes first, and neither
\* maybe.py nor result.py defines one (Applicative in typeclasses.py is a
\* Protocol declaration that no class implements)
apply(self, func) == Eff(GetAttr(self, "apply"), <<>>, 0)

Maybe_map_or(self, func, default) ==
    IF self.k = "Some" THEN Some_map_or(self, func, default)
    ELSE Nothing_map_or(self, func, default)

Maybe_and_(self, mayb) ==
    IF self.k = "Some" THEN Some_and_(self, mayb) ELSE Nothing_and_(self, mayb)

Maybe_and_then(self, func) ==
    IF self.k = "Some" THEN Some_and_then(self, func)
    ELSE Nothing_and_then(self, func)

Maybe_and_then_opt(self, func) ==
    IF self.k = "Some" THEN Some_and_then_opt(self, func)
    ELSE Nothing_and_then_opt(self, func)

Maybe_or_(self, mayb) ==
    IF self.k = "Some" THEN Some_or_(self, mayb) ELSE Nothing_or_(self, mayb)

Maybe_zip_with(self, func, maybs) ==
    IF self.k = "Some" THEN Some_zip_with(self, func, maybs)
    ELSE Nothing_zip_with(self, func, maybs)

Maybe_unzip(self) ==
    IF self.k = "Some" THEN Some_unzip(self) ELSE Nothing_unzip(self)

Result_map_or(self, func, default) ==
    IF self.k = "Ok" THEN Ok_map_or(self, func, default)
    ELSE Err_map_or(self, func, default)

Result_and_(self, res) ==
    IF self.k = "Ok" THEN Ok_and_(self, res) ELSE Err_and_(self, res)

Result_and_then(self, func) ==
    IF self.k = "Ok" THEN Ok_and_then(self, func) ELSE Err_and_then(self, func)

Result_or_(self, res) ==
    IF self.k = "Ok" THEN Ok_or_(self, res) ELSE Err_or_(self, res)

Result_err(self) == IF self.k = "Ok" THEN Ok_err(self) ELSE Err_err(self)

Result_either(self, ok_func, err_func) ==
    IF self.k = "Ok" THEN Ok_either(self, ok_func, err_func)
    ELSE Err_either(self, ok_func, err_func)

\* `self == other` on a Some, Nothing, Ok or Err
Eq(self, other) == Eff(Ret(BoolV(PyEq(self, other))), <<>>, 0)

(***************************************************************************)
(* The inputs the client draws from.                                       *)
(***************************************************************************)
SeqsUpTo(S, n) == UNION {[1..m -> S] : m \in 0..n}

Ints == {IntV(n) : n \in 0..MaxInt}

Scalars == Ints \cup {NoneV}

Lists == {ListV(s) : s \in SeqsUpTo(Ints, MaxLen)}

DictKeys == {StrV("a"), IntV(0)}

Dicts == {DictV(m) : m \in UNION {[D -> Ints] : D \in SUBSET DictKeys}}

\* exception objects made by the caller, one per class
Excs == {ExcV(c, StrV("boom"), 1) : c \in ExcClasses}

Payloads == Scalars \cup Lists \cup Dicts \cup Excs

Maybes == {Some(v) : v \in Payloads} \cup {Nothing}

Results == {Ok(v) : v \in Payloads} \cup {Err(v) : v \in Payloads}

\* the iterables handed to sequence
MaybeLists ==
    {ListV(s) : s \in SeqsUpTo({Some(v) : v \in Scalars} \cup {Nothing}, MaxLen)}

\* containers of a nan object
NanSubjects == {Some(NanV(1)), Ok(NanV(1)), Err(NanV(1))}

\* lists that start with None
NoneLists == {ListV(<<NoneV>>), ListV(<<NoneV, IntV(0)>>)}

\* a string of one character, raw and in a Some
StrSubjects == {StrV("h"), Some(StrV("h"))}

Subjects ==
    Payloads \cup Maybes \cup Results \cup MaybeLists \cup NanSubjects
        \cup StrSubjects \cup NoneLists

\* one-argument callables
Funcs == {FuncV(fn) : fn \in {"identity", "inc", "neg", "to_none", "wrap_ok",
                                "wrap_err", "raise_arg"}}

\* keys and indexes
Keys == {IntV(n) : n \in (0 - MaxLen - 1)..MaxLen}
        \cup {StrV("a"), StrV("b"), NoneV, ListV(<<>>)}

\* `err` arguments: plain values and zero-argument callables
ErrArgs == {StrV("bad value"), NoneV, ThunkV(StrV("bad value")), ThunkV(NoneV)}

\* `exc` arguments of unwrap
ExcArgs == {NoneV, TypeV("ValueError"), TypeV("KeyError"), TypeV("UnwrapError")}

\* `excs_to_catch` arguments of result_wrapped_for
CatchArgs == {TypeV("Exception"), TypeV("LookupError"), TypeV("ValueError"),
              TypeV("ZeroDivisionError"),
              TupleV(<<TypeV("ValueError"), TypeV("TypeError")>>),
              TupleV(<<TypeV("KeyError"), TypeV("ZeroDivisionError")>>)}

\* `default` arguments: plain values and zero-argument callables, one of
\* them raising; None is also what an omitted default is
Defaults ==
    {IntV(0), NoneV, ThunkV(IntV(1)), ThunkV(NoneV), RaiserV("ValueError")}

\* Maybe arguments of and_, or_ and xor
MaybeArgs == {Some(v) : v \in Scalars} \cup {Nothing}

\* the *maybs of zip and zip_with: no argument, one or several
ZipArgs == SeqsUpTo(MaybeArgs, MaxLen)

\* predicates: `isinstance(x, int)`, `x > 0`, and `x` itself for its truth
Preds == {FuncV(fn) : fn \in {"is_int", "positive", "identity"}}

\* arguments for apply: a container of a function, or a failure
WrappedFuncs ==
    {Some(FuncV("inc")), Ok(FuncV("inc")), Some(FuncV("identity")),
     Ok(FuncV("identity")), Nothing, Err(StrV("bad value"))}

\* Result arguments of and_ and or_
ResultArgs == {Ok(v) : v \in Scalars} \cup {Err(v) : v \in Scalars}

\* the argument of or_: a Maybe / Result, or a zero-argument callable
MaybeOrArgs ==
    MaybeArgs \cup {ThunkV(Some(IntV(1))), ThunkV(Nothing), RaiserV("ValueError")}

ResultOrArgs ==
    ResultArgs \cup {ThunkV(Ok(IntV(1))), ThunkV(Err(NoneV)), RaiserV("ValueError")}

\* func arguments of map_or and either
SmallFuncs == {FuncV(fn) : fn \in {"identity", "inc", "raise_arg"}}

\* func arguments of and_then: functions into Maybe, and into Result
MaybeBindFuncs ==
    {FuncV(fn) : fn \in {"wrap_some", "to_nothing", "some_inc", "raise_arg"}}

ResultBindFuncs ==
    {FuncV(fn) : fn \in {"wrap_ok", "wrap_err", "ok_inc", "raise_arg"}}

\* func arguments of zip_with
ZipFuncs == {FuncV("pack"), FuncV("add2")}

\* payloads of the right-hand side of `==`: among them two nan objects, and
\* an exception object that is not the one of Excs but has its class and
\* argument
EqPayloads ==
    Scalars \cup {ListV(<<>>), ListV(<<IntV(0)>>), NanV(1), NanV(2),
                  ExcV("ValueError", StrV("boom"), 1),
                  ExcV("ValueError", StrV("boom"), 2)}

\* right-hand sides of `==`
EqOperands ==
    {Some(v) : v \in EqPayloads} \cup {Ok(v) : v \in EqPayloads}
        \cup {Err(v) : v \in EqPayloads} \cup {Nothing}

\* the payload types of a Maybe field: Maybe[int], Maybe[str], and a field
\* without payload type
FieldTypes == {<<"int">>, <<"str">>, <<>>}

(***************************************************************************)
(* The client: it holds a subject and calls the library on it, each call   *)
(* on the value the call before returned.                                  *)
(***************************************************************************)
Init ==
    /\ subject \in Subjects
    /\ hist = <<>>
    /\ recv = subject
    /\ out = Ret(subject)
    /\ calls = <<>>
    /\ taken = 0

\* the value the next call is made on
Cur == out.val

\* record the call op(args) and its effect e
Step(op, args, e) ==
    /\ hist' = Append(hist, [op |-> op, args |-> args])
    /\ recv' = Cur
    /\ out' = e.out
    /\ calls' = e.calls
    /\ taken' = e.taken
    /\ UNCHANGED subject

\* the calls whose result the client calls a further method on
Chainable ==
    {"map", "get", "ok_or", "ok", "unwrap", "unwrap_raise", "maybe_get",
     "sequence", "result_wrapped", "result_wrapped_for", "as_maybe",
     "and_then"}

\* a method can be called while the expression has a value and room
CanCall ==
    /\ out.k = "ret" /\ Len(hist) < MaxChain
    /\ hist # <<>> => hist[Len(hist)].op \in Chainable

\* m.map(func) on a Maybe
MaybeMap ==
    /\ CanCall /\ IsMaybe(Cur)
    /\ \E func \in Funcs : Step("map", <<func>>, Maybe_map(Cur, func))

\* r.map(func) on a Result
ResultMap ==
    /\ CanCall /\ IsResult(Cur)
    /\ \E func \in Funcs : Step("map", <<func>>, Result_map(Cur, func))

\* m.get(key)
MaybeGet ==
    /\ CanCall /\ IsMaybe(Cur)
    /\ \E key \in Keys : Step("get", <<key>>, Maybe_get(Cur, key))

\* m.ok_or(err)
MaybeOkOr ==
    /\ CanCall /\ IsMaybe(Cur)
    /\ \E err \in ErrArgs : Step("ok_or", <<err>>, Maybe_ok_or(Cur, err))

\* r.ok()
ResultOk ==
    /\ CanCall /\ IsResult(Cur)
    /\ Step("ok", <<>>, Result_ok(Cur))

\* r.unwrap(exc)
ResultUnwrap ==
    /\ CanCall /\ IsResult(Cur)
    /\ \E exc \in ExcArgs : Step("unwrap", <<exc>>, unwrap(Cur, exc))

\* r.unwrap_raise()
ResultUnwrapRaise ==
    /\ CanCall /\ IsResult(Cur)
    /\ Step("unwrap_raise", <<>>, Result_unwrap_raise(Cur))

\* maybe_get(subject, key)
FreeMaybeGet ==
    /\ hist = <<>> /\ subject \in Payloads
    /\ \E key \in Keys : Step("maybe_get", <<key>>, maybe_get(subject, key))

\* sequence(subject)
Sequence ==
    /\ hist = <<>> /\ subject \in MaybeLists
    /\ Step("sequence", <<>>, sequence(subject))

\* result_wrapped(func)(subject)
ResultWrapped ==
    /\ hist = <<>> /\ subject \in Payloads
    /\ \E func \in Funcs :
          Step("result_wrapped", <<func>>, result_wrapped(func, subject))

\* result_wrapped_for(excs_to_catch)(func)(subject)
ResultWrappedFor ==
    /\ hist = <<>> /\ subject \in Payloads
    /\ \E excs_to_catch \in CatchArgs, func \in Funcs :
          Step("result_wrapped_for", <<excs_to_catch, func>>,
               result_wrapped_for(excs_to_catch, func, subject))

\* a first call is made on the subject itself
FirstCall == hist = <<>>

\* r.unwrap_or(default)
ResultUnwrapOr ==
    /\ FirstCall /\ IsResult(subject)
    /\ \E default \in Defaults :
          Step("unwrap_or", <<default>>, unwrap_or(subject, default))

\* m.from_maybe(default=default); an omitted default is None
MaybeFromMaybe ==
    /\ FirstCall /\ IsMaybe(subject)
    /\ \E default \in Defaults :
          Step("from_maybe", <<default>>, Maybe_from_maybe(subject, default))

\* from_maybe(m, default=default)
FreeFromMaybe ==
    /\ FirstCall /\ IsMaybe(subject)
    /\ \E default \in Defaults :
          Step("from_maybe()", <<default>>, from_maybe(subject, default))

\* as_maybe(v)
AsMaybe ==
    /\ FirstCall /\ ~IsMaybe(subject) /\ ~IsResult(subject)
    /\ Step("as_maybe", <<>>, as_maybe(subject))

\* m.is_some()
MaybeIsSome ==
    /\ CanCall /\ IsMaybe(Cur)
    /\ Step("is_some", <<>>, is_some(Cur))

\* m.is_nothing()
MaybeIsNothing ==
    /\ CanCall /\ IsMaybe(Cur)
    /\ Step("is_nothing", <<>>, is_nothing(Cur))

\* m.xor(mayb)
MaybeXor ==
    /\ FirstCall /\ IsMaybe(subject)
    /\ \E mayb \in MaybeArgs : Step("xor", <<mayb>>, Maybe_xor(subject, mayb))

\* m.zip(*maybs)
MaybeZip ==
    /\ FirstCall /\ IsMaybe(subject)
    /\ \E maybs \in ZipArgs : Step("zip", maybs, Maybe_zip(subject, maybs))

\* m.filter(predicate)
MaybeFilter ==
    /\ FirstCall /\ IsMaybe(subject)
    /\ \E predicate \in Preds :
          Step("filter", <<predicate>>, Maybe_filter(subject, predicate))

\* r.map_err(func)
ResultMapErr ==
    /\ FirstCall /\ IsResult(subject)
    /\ \E func \in Funcs : Step("map_err", <<func>>, Result_map_err(subject, func))

\* r.filter_or(predicate, err)
ResultFilterOr ==
    /\ FirstCall /\ IsResult(subject)
    /\ \E predicate \in Preds, err \in ErrArgs :
          Step("filter_or", <<predicate, err>>,
               Result_filter_or(subject, predicate, err))

\* x.apply(func) on a Maybe or a Result
Apply ==
    /\ FirstCall /\ (IsMaybe(subject) \/ IsResult(subject))
    /\ \E func \in WrappedFuncs : Step("apply", <<func>>, apply(subject, func))

\* m.map_or(func, default=default)
MaybeMapOr ==
    /\ FirstCall /\ IsMaybe(subject)
    /\ \E func \in SmallFuncs, default \in Defaults :
          Step("map_or", <<func, default>>, Maybe_map_or(subject, func, default))

\* m.and_(mayb)
MaybeAnd ==
    /\ FirstCall /\ IsMaybe(subject)
    /\ \E mayb \in MaybeArgs : Step("and_", <<mayb>>, Maybe_and_(subject, mayb))

\* m.and_then(func)
MaybeAndThen ==
    /\ CanCall /\ IsMaybe(Cur)
    /\ \E func \in MaybeBindFuncs :
          Step("and_then", <<func>>, Maybe_and_then(Cur, func))

\* m.and_then_opt(func)
MaybeAndThenOpt ==
    /\ FirstCall /\ IsMaybe(subject)
    /\ \E func \in Funcs :
          Step("and_then_opt", <<func>>, Maybe_and_then_opt(subject, func))

\* m.or_(mayb)
MaybeOr ==
    /\ FirstCall /\ IsMaybe(subject)
    /\ \E mayb \in MaybeOrArgs : Step("or_", <<mayb>>, Maybe_or_(subject, mayb))

\* m.zip_with(func, *maybs)
MaybeZipWith ==
    /\ FirstCall /\ IsMaybe(subject)
    /\ \E func \in ZipFuncs, maybs \in ZipArgs :
          Step("zip_with", <<func>> \o maybs, Maybe_zip_with(subject, func, maybs))

\* m.unzip(); the dicts and strings of the model hold no iteration order
\* and no characters, so unzip is not called on a Some of one
MaybeUnzip ==
    /\ CanCall /\ IsMaybe(Cur)
    /\ Cur.k = "Some" => Cur.val.k \notin {"dict", "str"}
    /\ Step("unzip", <<>>, Maybe_unzip(Cur))

\* r.map_or(func, default=default)
ResultMapOr ==
    /\ FirstCall /\ IsResult(subject)
    /\ \E func \in SmallFuncs, default \in Defaults :
          Step("map_or", <<func, default>>, Result_map_or(subject, func, default))

\* r.and_(res)
ResultAnd ==
    /\ FirstCall /\ IsResult(subject)
    /\ \E res \in ResultArgs : Step("and_", <<res>>, Result_and_(subject, res))

\* r.and_then(func)
ResultAndThen ==
    /\ CanCall /\ IsResult(Cur)
    /\ \E func \in ResultBindFuncs :
          Step("and_then", <<func>>, Result_and_then(Cur, func))

\* r.or_(res)
ResultOr ==
    /\ FirstCall /\ IsResult(subject)
    /\ \E res \in ResultOrArgs : Step("or_", <<res>>, Result_or_(subject, res))

\* r.err()
ResultErr ==
    /\ FirstCall /\ IsResult(subject)
    /\ Step("err", <<>>, Result_err(subject))

\* r.either(ok_func, err_func)
ResultEither ==
    /\ FirstCall /\ IsResult(subject)
    /\ \E ok_func \in SmallFuncs, err_func \in SmallFuncs :
          Step("either", <<ok_func, err_func>>,
               Result_either(subject, ok_func, err_func))

\* x == other on a Maybe or a Result
Equals ==
    /\ FirstCall /\ (IsMaybe(subject) \/ IsResult(subject))
    /\ \E other \in EqOperands : Step("__eq__", <<other>>, Eq(subject, other))

\* Model(field=subject) for a field of type Maybe[tp]
ValidateField ==
    /\ FirstCall
    /\ \E sub_fields \in FieldTypes :
          Step("validate_field", <<sub_fields>>, validate_field(subject, sub_fields))

\* maybe_next(subject), or maybe_next(iter(subject)) for a list; the dicts
\* and strings of the model hold no iteration order and no characters
FreeMaybeNext ==
    /\ FirstCall /\ subject.k \notin {"dict", "str"}
    /\ Step("maybe_next", <<>>, maybe_next(subject))

Next ==
    \/ MaybeMap
    \/ ResultMap
    \/ MaybeGet
    \/ MaybeOkOr
    \/ ResultOk
    \/ ResultUnwrap
    \/ ResultUnwrapRaise
    \/ FreeMaybeGet
    \/ Sequence
    \/ ResultWrapped
    \/ ResultWrappedFor
    \/ ResultUnwrapOr
    \/ MaybeFromMaybe
    \/ FreeFromMaybe
    \/ AsMaybe
    \/ MaybeIsSome
    \/ MaybeIsNothing
    \/ MaybeXor
    \/ MaybeZip
    \/ MaybeFilter
    \/ ResultMapErr
    \/ ResultFilterOr
    \/ Apply
    \/ MaybeMapOr
    \/ MaybeAnd
    \/ MaybeAndThen
    \/ MaybeAndThenOpt
    \/ MaybeOr
    \/ MaybeZipWith
    \/ MaybeUnzip
    \/ ResultMapOr
    \/ ResultAnd
    \/ ResultAndThen
    \/ ResultOr
    \/ ResultErr
    \/ ResultEither
    \/ Equals
    \/ ValidateField
    \/ FreeMaybeNext

Spec == Init /\ [][Next]_vars

(***************************************************************************)
(* Properties.                                                             *)
(***************************************************************************)
\* the last call made, when there is one
Last == hist[Len(hist)]

\* the expression is x.map(f).map(g) on the subject x
TwoMaps == Len(hist) = 2 /\ hist[1].op = "map" /\ hist[2].op = "map"

\* C1: x.map(f).map(g) is x.map(a -> g(f(a))) for every Maybe and every Result
\* x; for x Nothing (Err(e)) the value is Nothing (Err(e)) unchanged; and when
\* f raises in the first map, the composed map raises the same for every g.
C1_MapComposition ==
    /\ TwoMaps =>
         LET fg == ComposeV(hist[1].args[1], hist[2].args[1])
         IN  /\ IsMaybe(subject) => out = Maybe_map(subject, fg).out
             /\ IsResult(subject) => out = Result_map(subject, fg).out
             /\ subject = Nothing => out = Ret(Nothing)
             /\ subject.k = "Err" => out = Ret(subject)
    /\ (Len(hist) = 1 /\ Last.op = "map" /\ out.k = "raise") =>
         \A g \in Funcs :
            LET fg == ComposeV(Last.args[1], g)
            IN  /\ IsMaybe(subject) => out = Maybe_map(subject, fg).out
                /\ IsResult(subject) => out = Result_map(subject, fg).out

\* C1 witness: two maps that do not commute, inc then neg, were chained on Some(1)
C1_Witness ==
    /\ TwoMaps
    /\ hist[1].args[1] = FuncV("inc") /\ hist[2].args[1] = FuncV("neg")
    /\ subject = Some(IntV(1))
    /\ out = Ret(Some(IntV(0 - 2)))

\* C2: Some(v).map(f) is Some(f(v)) (an f that raises raises out of map), so
\* Some(v).map(identity) is Some(v); Nothing().map(f) is Nothing() and f is
\* not invoked.
C2_MaybeMap ==
    (hist # <<>> /\ Last.op = "map" /\ IsMaybe(recv)) =>
        LET f == Last.args[1]
        IN  /\ recv.k = "Some" =>
                 LET r == Call(f, recv.val)
                 IN  /\ r.k = "ret" => out = Ret(Some(r.val))
                     /\ r.k = "raise" => out = r
                     /\ f = FuncV("identity") => out = Ret(recv)
            /\ recv.k = "Nothing" => (out = Ret(Nothing) /\ calls = <<>>)

\* C2 witness: map was called on Nothing with a function that raises on every
\* argument it could have been given
C2_Witness ==
    /\ hist # <<>> /\ Last.op = "map"
    /\ recv = Nothing /\ Last.args[1] = FuncV("raise_arg")
    /\ out = Ret(Nothing)

\* C3: Some(v).ok_or(err).ok() is Some(v) and Nothing().ok_or(err).ok() is
\* Nothing(), for err a value or a zero-argument callable; and
\* Ok(v).ok().ok_or(err) is Ok(v).
C3_RoundTrip ==
    /\ (Len(hist) = 2 /\ hist[1].op = "ok_or" /\ hist[2].op = "ok"
           /\ IsMaybe(subject))
         => out = Ret(subject)
    /\ (Len(hist) = 2 /\ hist[1].op = "ok" /\ hist[2].op = "ok_or"
           /\ subject.k = "Ok")
         => out = Ret(subject)

\* C3 witness: Some(None) went to a Result and back, with a callable err
C3_Witness ==
    /\ Len(hist) = 2 /\ hist[1].op = "ok_or" /\ hist[2].op = "ok"
    /\ hist[1].args[1] = ThunkV(NoneV)
    /\ subject = Some(NoneV)
    /\ recv = Ok(NoneV)
    /\ out = Ret(Some(NoneV))

\* C4: sequence(ms) is Some of the list of the unwrapped values, in the order
\* of ms, when every element is a Some (Some([]) for no elements), and
\* Nothing() when some element is Nothing, wherever it stands.
C4_Sequence ==
    (Len(hist) = 1 /\ Last.op = "sequence") =>
        LET ms == subject.items
        IN  /\ (\A i \in 1..Len(ms) : ms[i].k = "Some")
                 => out = Ret(Some(ListV([i \in 1..Len(ms) |-> ms[i].val])))
            /\ (\E i \in 1..Len(ms) : ms[i] = Nothing) => out = Ret(Nothing)

\* C4 witness: a Nothing in the last place, after a Some, gave Nothing
C4_Witness ==
    /\ Len(hist) = 1 /\ Last.op = "sequence"
    /\ Len(subject.items) = MaxLen
    /\ subject.items[MaxLen] = Nothing
    /\ subject.items[1].k = "Some"
    /\ out = Ret(Nothing)

\* the index n exists in a list of length len
IndexExists(n, len) == 0 - len <= n /\ n < len

\* C5: m.get(key) never raises.  On Some(c): for a list c and an index that
\* exists it is Some(c[key]); for a dict c and a key of c it is Some(c[key]);
\* in every other case (index out of range, key missing, key of the wrong
\* kind, c not indexable) it is Nothing().  On Nothing() it is Nothing().
\* (A string of one character is indexable too: its character at 0 and -1.)
C5_Get ==
    (hist # <<>> /\ Last.op = "get") =>
        LET key == Last.args[1]
            c == recv.val
        IN  /\ out.k = "ret"
            /\ recv = Nothing => out = Ret(Nothing)
            /\ recv.k = "Some" =>
                 IF c.k = "list" /\ key.k = "int" /\ IndexExists(key.n, Len(c.items))
                 THEN out = Ret(Some(c.items[(key.n % Len(c.items)) + 1]))
                 ELSE IF c.k = "dict" /\ key \in DOMAIN c.map
                 THEN out = Ret(Some(c.map[key]))
                 ELSE IF c.k = "str" /\ key.k = "int" /\ IndexExists(key.n, 1)
                 THEN out = Ret(Some(c))
                 ELSE out = Ret(Nothing)

\* C5 witness: get on a payload that cannot be indexed gave Nothing
C5_Witness ==
    /\ hist # <<>> /\ Last.op = "get"
    /\ recv = Some(IntV(0)) /\ Last.args[1] = IntV(0)
    /\ out = Ret(Nothing)

\* C6: maybe_get(container, key) is Some(container).get(key) for every
\* container and key, and does not raise.
C6_MaybeGetAsGet ==
    (Len(hist) = 1 /\ Last.op = "maybe_get") =>
        /\ out = Some_get(Some(subject), Last.args[1]).out
        /\ out.k = "ret"

\* the call is result_wrapped(func)(subject)
IsResultWrapped == Len(hist) = 1 /\ Last.op = "result_wrapped"

\* C7 as stated: result_wrapped(f)(arg) is Ok(r) when f returns r that is no
\* Result, r itself when r is an Ok or an Err, Err(exc) when f raises exc,
\* whatever exc is, and the wrapper never raises.
C7_WrappedCatchesAll ==
    IsResultWrapped =>
        LET r == Call(Last.args[1], subject)
        IN  /\ out.k = "ret"
            /\ (r.k = "ret" /\ ~IsResult(r.val)) => out = Ret(Ok(r.val))
            /\ (r.k = "ret" /\ IsResult(r.val)) => out = r
            /\ r.k = "raise" => out = Ret(Err(r.exc))

\* C7 amended: as stated when f returns; when f raises exc, the wrapper
\* returns Err(exc), holding that object, if exc is an instance of Exception,
\* and lets exc through if it is not (KeyboardInterrupt and the other
\* BaseException-only classes); the wrapper raises nothing else.
C7_WrappedCatchesException ==
    IsResultWrapped =>
        LET r == Call(Last.args[1], subject)
        IN  /\ (r.k = "ret" /\ ~IsResult(r.val)) => out = Ret(Ok(r.val))
            /\ (r.k = "ret" /\ IsResult(r.val)) => out = r
            /\ (r.k = "raise" /\ IsSubclass(r.exc.cls, "Exception"))
                 => out = Ret(Err(r.exc))
            /\ (r.k = "raise" /\ ~IsSubclass(r.exc.cls, "Exception")) => out = r
            /\ out.k = "raise"
                 => (r = out /\ ~IsSubclass(out.exc.cls, "Exception"))

\* C7 witness: f raised the caller's ZeroDivisionError object and the wrapper
\* returned that object in an Err
C7_Witness ==
    /\ IsResultWrapped
    /\ Last.args[1] = FuncV("raise_arg")
    /\ subject = ExcV("ZeroDivisionError", StrV("boom"), 1)
    /\ out = Ret(Err(subject))

\* the classes excs_to_catch names: one class, or those of a tuple
GivenClasses(excs) ==
    IF excs.k = "type" THEN {excs.cls}
    ELSE {excs.items[i].cls : i \in 1..Len(excs.items)}

\* C8: result_wrapped_for(excs)(f)(arg) is Ok(r) when f returns r; when f
\* raises exc it is Err(exc) if exc is an instance of a class excs names, and
\* otherwise exc propagates unchanged.
C8_WrappedFor ==
    (Len(hist) = 1 /\ Last.op = "result_wrapped_for") =>
        LET excs == Last.args[1]
            r == Call(Last.args[2], subject)
            caught == r.k = "raise" /\
                      \E c \in GivenClasses(excs) : IsSubclass(r.exc.cls, c)
        IN  /\ r.k = "ret" => out = Ret(Ok(r.val))
            /\ caught => out = Ret(Err(r.exc))
            /\ (r.k = "raise" /\ ~caught) => out = r

\* C8 witness: a KeyError, an instance of the named LookupError, was caught
C8_Witness ==
    /\ Len(hist) = 1 /\ Last.op = "result_wrapped_for"
    /\ Last.args[1] = TypeV("LookupError")
    /\ Last.args[2] = FuncV("raise_arg")
    /\ subject = ExcV("KeyError", StrV("boom"), 1)
    /\ out = Ret(Err(subject))

\* C9: Ok(v).unwrap(exc) is v for every exc; Err(e).unwrap() raises
\* UnwrapError(e); Err(e).unwrap(exc) raises exc(e), which is an UnwrapError
\* only if exc is UnwrapError.
C9_Unwrap ==
    (hist # <<>> /\ Last.op = "unwrap") =>
        LET exc == Last.args[1]
        IN  /\ recv.k = "Ok" => out = Ret(recv.val)
            /\ (recv.k = "Err" /\ exc = NoneV)
                 => out = Raise(ExcV("UnwrapError", recv.val, 0))
            /\ (recv.k = "Err" /\ exc # NoneV)
                 => /\ out = Raise(ExcV(exc.cls, recv.val, 0))
                    /\ exc.cls # "UnwrapError" => out.exc.cls # "UnwrapError"

\* C9 witness: unwrap(KeyError) on an Err raised KeyError(e)
C9_Witness ==
    /\ hist # <<>> /\ Last.op = "unwrap"
    /\ Last.args[1] = TypeV("KeyError")
    /\ recv = Err(IntV(0))
    /\ out = Raise(ExcV("KeyError", IntV(0), 0))

\* C10: Ok(v).unwrap_raise() is v; Err(e).unwrap_raise(), for e an exception
\* object, raises e itself: the same object, not one built around it.
C10_UnwrapRaise ==
    (hist # <<>> /\ Last.op = "unwrap_raise") =>
        /\ recv.k = "Ok" => out = Ret(recv.val)
        /\ (recv.k = "Err" /\ recv.val.k = "exc") => out = Raise(recv.val)

\* C10 witness: unwrap_raise on Err(ValueError) raised the stored object
C10_Witness ==
    /\ hist # <<>> /\ Last.op = "unwrap_raise"
    /\ recv = Err(ExcV("ValueError", StrV("boom"), 1))
    /\ out = Raise(recv.val)

\* C11: Ok(v).unwrap_or(d) is v; Err(e).unwrap_or(d) is d when d is not
\* callable and d() when d is a zero-argument callable; it raises nothing
\* but what d() raises.
C11_UnwrapOr ==
    (hist # <<>> /\ Last.op = "unwrap_or") =>
        LET d == Last.args[1]
        IN  /\ recv.k = "Ok" => out = Ret(recv.val)
            /\ (recv.k = "Err" /\ ~Callable(d)) => out = Ret(d)
            /\ (recv.k = "Err" /\ Callable(d)) => out = CallNullary(d)
            /\ out.k = "raise" => (Callable(d) /\ CallNullary(d) = out)

\* C11 witness: unwrap_or on an Err called the default and returned its result
C11_Witness ==
    /\ hist # <<>> /\ Last.op = "unwrap_or"
    /\ recv.k = "Err" /\ Last.args[1] = ThunkV(IntV(1))
    /\ out = Ret(IntV(1))

\* C12: Some(v).from_maybe(default=d) is v for every d; Nothing().from_maybe()
\* is None; Nothing().from_maybe(default=d) is d when d is not callable and
\* d() when it is; the function from_maybe(m, default=d) gives the same
\* result as the method.
C12_FromMaybe ==
    /\ (hist # <<>> /\ Last.op = "from_maybe") =>
          LET d == Last.args[1]
          IN  /\ recv.k = "Some" => out = Ret(recv.val)
              /\ (recv.k = "Nothing" /\ d = NoneV) => out = Ret(NoneV)
              /\ (recv.k = "Nothing" /\ ~Callable(d)) => out = Ret(d)
              /\ (recv.k = "Nothing" /\ Callable(d)) => out = CallNullary(d)
    /\ (hist # <<>> /\ Last.op = "from_maybe()") =>
          out = Maybe_from_maybe(recv, Last.args[1]).out

\* C12 witness: the function from_maybe on Nothing() called the default
C12_Witness ==
    /\ hist # <<>> /\ Last.op = "from_maybe()"
    /\ recv = Nothing /\ Last.args[1] = ThunkV(IntV(1))
    /\ out = Ret(IntV(1)) /\ calls = <<"default">>

\* C13: as_maybe(v).is_some() is true exactly when v is not None, is_nothing()
\* is its negation, and as_maybe(v) == Some(v) whenever v is not None.
C13_AsMaybe ==
    (hist # <<>> /\ hist[1].op = "as_maybe") =>
        /\ Len(hist) = 1 =>
              /\ out.k = "ret"
              /\ subject # NoneV => out.val = Some(subject)
        /\ (Len(hist) = 2 /\ Last.op = "is_some") =>
              out = Ret(BoolV(subject # NoneV))
        /\ (Len(hist) = 2 /\ Last.op = "is_nothing") =>
              out = Ret(BoolV(subject = NoneV))

\* C13 witness: as_maybe(0).is_some() is True
C13_Witness ==
    /\ Len(hist) = 2 /\ hist[1].op = "as_maybe" /\ Last.op = "is_some"
    /\ subject = IntV(0) /\ out = Ret(BoolV(TRUE))

\* C14: a.xor(b) is Some exactly when exactly one of a and b is Some, and is
\* then equal to that operand; otherwise it is Nothing().
C14_Xor ==
    (hist # <<>> /\ Last.op = "xor") =>
        LET a == recv
            b == Last.args[1]
        IN  /\ out.k = "ret"
            /\ (a.k = "Some" /\ b.k = "Nothing") => out.val = a
            /\ (a.k = "Nothing" /\ b.k = "Some") => out.val = b
            /\ (a.k = b.k) => out.val = Nothing

\* C14 witness: Some(v).xor(Some(w)) gave Nothing()
C14_Witness ==
    /\ hist # <<>> /\ Last.op = "xor"
    /\ recv = Some(IntV(0)) /\ Last.args[1] = Some(IntV(1))
    /\ out = Ret(Nothing)

\* C15: m.zip(m1, ..., mk) is Some((v, v1, ..., vk)) when the receiver and
\* every argument are Some, and Nothing() when any of them is Nothing().
C15_Zip ==
    (hist # <<>> /\ Last.op = "zip") =>
        LET maybs == Last.args
            AllSome == /\ recv.k = "Some"
                       /\ \A i \in 1..Len(maybs) : maybs[i].k = "Some"
        IN  /\ out.k = "ret"
            /\ AllSome =>
                  out.val = Some(TupleV(<<recv.val>> \o
                               [i \in 1..Len(maybs) |-> maybs[i].val]))
            /\ ~AllSome => out.val = Nothing

\* C15 witness: a Some zipped with two Some arguments gave the 3-tuple
C15_Witness ==
    /\ hist # <<>> /\ Last.op = "zip" /\ Len(Last.args) = 2
    /\ recv = Some(IntV(0))
    /\ out = Ret(Some(TupleV(<<IntV(0), IntV(1), NoneV>>)))

\* C16: Some(v).filter(p) is Some(v) when p(v) is true and Nothing() when
\* p(v) is false; Nothing().filter(p) is Nothing() and p is not evaluated.
C16_Filter ==
    (hist # <<>> /\ Last.op = "filter") =>
        LET p == Last.args[1]
        IN  /\ (recv.k = "Some" /\ Call(p, recv.val).k = "ret") =>
                  /\ Truthy(Call(p, recv.val).val) => out = Ret(recv)
                  /\ ~Truthy(Call(p, recv.val).val) => out = Ret(Nothing)
            /\ (recv.k = "Some" /\ p = FuncV("identity")) =>
                  out = Ret(IF recv.val \in {NoneV, IntV(0), ListV(<<>>), DictV(<<>>)}
                            THEN Nothing ELSE recv)
            /\ recv.k = "Nothing" => (out = Ret(Nothing) /\ calls = <<>>)

\* C16 witness: a Some whose value the predicate rejects was filtered out
C16_Witness ==
    /\ hist # <<>> /\ Last.op = "filter"
    /\ recv = Some(IntV(0)) /\ Last.args[1] = FuncV("positive")
    /\ out = Ret(Nothing) /\ calls = <<"predicate">>

\* C17: Ok(v).map(f) == Ok(f(v)); Err(e).map(f) == Err(e) and f is not
\* invoked; Ok(v).map_err(g) == Ok(v) and g is not invoked;
\* Err(e).map_err(g) == Err(g(e)).
C17_MapFrame ==
    /\ (hist # <<>> /\ Last.op = "map" /\ IsResult(recv)) =>
          LET r == Call(Last.args[1], recv.val)
          IN  /\ (recv.k = "Ok" /\ r.k = "ret") => out = Ret(Ok(r.val))
              /\ recv.k = "Err" => (out = Ret(recv) /\ calls = <<>>)
    /\ (hist # <<>> /\ Last.op = "map_err") =>
          LET r == Call(Last.args[1], recv.val)
          IN  /\ recv.k = "Ok" => (out = Ret(recv) /\ calls = <<>>)
              /\ (recv.k = "Err" /\ r.k = "ret") => out = Ret(Err(r.val))

\* C17 witness: map_err rewrote the payload of an Err
C17_Witness ==
    /\ hist # <<>> /\ Last.op = "map_err"
    /\ recv = Err(IntV(0)) /\ Last.args[1] = FuncV("inc")
    /\ out = Ret(Err(IntV(1))) /\ calls = <<"func">>

\* C18: Ok(v).filter_or(p, err) is Ok(v) when p(v) is true, and otherwise
\* Err(err) for a non-callable err and Err(err()) for a callable one;
\* Err(e).filter_or(p, err) is Err(e), with neither p nor err evaluated.
C18_FilterOr ==
    (hist # <<>> /\ Last.op = "filter_or") =>
        LET p == Last.args[1]
            err == Last.args[2]
            r == Call(p, recv.val)
        IN  /\ (recv.k = "Ok" /\ r.k = "ret" /\ Truthy(r.val)) => out = Ret(recv)
            /\ (recv.k = "Ok" /\ r.k = "ret" /\ ~Truthy(r.val)) =>
                  /\ err.k # "thunk" => out = Ret(Err(err))
                  /\ err.k = "thunk" => out = Ret(Err(err.ret))
            /\ recv.k = "Err" => (out = Ret(recv) /\ calls = <<>>)

\* C18 witness: an Ok the predicate rejects became the Err of the called err
C18_Witness ==
    /\ hist # <<>> /\ Last.op = "filter_or"
    /\ recv = Ok(IntV(0)) /\ Last.args = <<FuncV("positive"), ThunkV(StrV("bad value"))>>
    /\ out = Ret(Err(StrV("bad value"))) /\ calls = <<"predicate", "err">>

NothingOps ==
    {"map", "map_or", "and_", "and_then", "and_then_opt", "get", "filter",
     "or_", "xor", "zip", "zip_with", "unzip", "ok_or"}

ErrOps ==
    {"map", "map_or", "map_err", "and_", "and_then", "or_", "ok", "err",
     "either", "filter_or", "unwrap_or"}

\* the last call was a listed combinator on the Nothing / Err variant
OnFailure ==
    /\ hist # <<>>
    /\ \/ recv = Nothing /\ Last.op \in NothingOps
       \/ IsResult(recv) /\ recv.k = "Err" /\ Last.op \in ErrOps

\* the last call was unwrap or unwrap_raise on an Err
UnwrapOnErr ==
    /\ hist # <<>> /\ IsResult(recv) /\ recv.k = "Err"
    /\ Last.op \in {"unwrap", "unwrap_raise"}

\* what the callable that the failure path of the last call invokes does:
\* the default of map_or and unwrap_or, the alternative of or_ and ok_or,
\* and the function of map_err and either applied to the Err payload
Invoked ==
    CASE Last.op = "map_or" -> CallNullary(Last.args[2])
      [] Last.op \in {"or_", "ok_or", "unwrap_or"} -> CallNullary(Last.args[1])
      [] Last.op = "map_err" -> Call(Last.args[1], recv.val)
      [] Last.op = "either" -> Call(Last.args[2], recv.val)

\* C20 as stated: every listed combinator is defined on both variants and, on
\* Nothing / Err, returns a value without raising for all arguments, given
\* that the default callables do not raise; unwrap and unwrap_raise raise.
C20_NeverRaises ==
    /\ NothingOps \subseteq MaybeAttrs /\ ErrOps \subseteq ResultAttrs
    /\ (OnFailure /\ \A i \in 1..Len(Last.args) : Last.args[i].k # "raiser") =>
          out.k = "ret"
    /\ UnwrapOnErr => out.k = "raise"

\* C20, amended: every listed combinator is defined on both variants; on
\* Nothing / Err it raises only what a caller-supplied callable invoked on
\* that path raises: the default of map_or and unwrap_or, the callable
\* alternative of or_ and ok_or, and the function that map_err and either
\* apply to the Err payload.  The other listed combinators call nothing and
\* return.  unwrap and unwrap_raise are the operations that raise because
\* the receiver is Err.
C20_FailurePath ==
    /\ NothingOps \subseteq MaybeAttrs /\ ErrOps \subseteq ResultAttrs
    /\ OnFailure =>
          /\ Last.op \notin {"map_or", "or_", "ok_or", "unwrap_or", "map_err",
                             "either"} => (out.k = "ret" /\ calls = <<>>)
          /\ out.k = "raise" => (calls # <<>> /\ out = Invoked)
    /\ UnwrapOnErr => (out.k = "raise" /\ calls = <<>>)

\* C20 witness: map_err on an Err raised what its function raised on the
\* payload, with no default callable involved
C20_Witness ==
    /\ hist # <<>> /\ Last.op = "map_err"
    /\ recv = Err(NoneV) /\ Last.args[1] = FuncV("inc")
    /\ out.k = "raise" /\ out.exc.cls = "TypeError"

\* the payloads of the two operands of the last `==` are one and the same
\* object that is not equal to itself
SameNan == recv.val.k = "nan" /\ recv.val = Last.args[1].val

\* C21 as stated: Some(a) == Some(b) iff a == b, Nothing() == Nothing(),
\* Some(a) != Nothing(); Ok(a) == Ok(b) iff a == b, Err(a) == Err(b) iff
\* a == b; Ok(a) != Err(a), and a Maybe never equals a Result.
C21_Equality ==
    (hist # <<>> /\ Last.op = "__eq__") =>
        LET b == Last.args[1]
        IN  /\ (recv.k = b.k /\ recv.k # "Nothing") =>
                  out = Ret(BoolV(PyEq(recv.val, b.val)))
            /\ (recv.k = b.k /\ recv.k = "Nothing") => out = Ret(BoolV(TRUE))
            /\ recv.k # b.k => out = Ret(BoolV(FALSE))

\* C21, amended: two containers of the same variant are equal iff their
\* payloads are the same object or are equal (so Some(a) == Some(a) also for
\* an a that is not equal to itself, float nan); Nothing() == Nothing();
\* containers of different variants are never equal, whatever the payloads.
C21_EqualityOrIdentity ==
    (hist # <<>> /\ Last.op = "__eq__") =>
        LET b == Last.args[1]
        IN  /\ (recv.k = b.k /\ recv.k # "Nothing") =>
                  out = Ret(BoolV(SameNan \/ PyEq(recv.val, b.val)))
            /\ (recv.k = b.k /\ recv.k = "Nothing") => out = Ret(BoolV(TRUE))
            /\ recv.k # b.k => out = Ret(BoolV(FALSE))

\* C21 witness: Some(a) == Some(a) is True for a nan a
C21_Witness ==
    /\ hist # <<>> /\ Last.op = "__eq__"
    /\ recv = Some(NanV(1)) /\ Last.args[1] = Some(NanV(1))
    /\ out = Ret(BoolV(TRUE))

\* C22: coercion of a raw input v into a field of type Maybe[tp]: None becomes
\* Nothing(); a Nothing stays Nothing and a Some(x) is not wrapped again, x
\* being validated against tp; a raw non-None x becomes Some(validated x);
\* a payload of the wrong type gives exactly one validation error.
C22_Coercion ==
    (hist # <<>> /\ Last.op = "validate_field" /\ Last.args[1] # <<>>) =>
        LET tp == Last.args[1][1]
            x == IF recv.k = "Some" THEN recv.val ELSE recv
            r == sub_field_validate(tp, x)
        IN  /\ recv \in {NoneV, Nothing} => out = Ret(Nothing)
            /\ (recv \notin {NoneV, Nothing} /\ r[2] = NoneV) =>
                  out = Ret(Some(r[1]))
            /\ (recv \notin {NoneV, Nothing} /\ r[2] # NoneV) =>
                  /\ out.k = "raise" /\ out.exc.cls = "ValidationError"
                  /\ out.exc.arg = ListV(<<r[2]>>)

\* C22 witness: Some of a list for a Maybe[int] field failed with one error
C22_Witness ==
    /\ hist # <<>> /\ Last.op = "validate_field" /\ Last.args[1] = <<"int">>
    /\ recv = Some(ListV(<<>>))
    /\ out.k = "raise"
    /\ out.exc.arg = ListV(<<StrV("value is not a valid integer")>>)

\* the place of the first Nothing in ms, Len(ms) + 1 when there is none
RECURSIVE FirstNothing(_, _)
FirstNothing(ms, i) ==
    IF i > Len(ms) \/ ms[i] = Nothing THEN i ELSE FirstNothing(ms, i + 1)

\* C23 as stated: sequence applied to an iterator takes its elements in order
\* up to and including the first Nothing and none after it; every element is
\* taken, once, only when all elements are Some.
C23_SequenceShortCircuit ==
    (Len(hist) = 1 /\ Last.op = "sequence") =>
        LET ms == subject.items
            first == FirstNothing(ms, 1)
        IN  /\ first <= Len(ms) => taken = first
            /\ taken = Len(ms) => \A i \in 1..Len(ms) : ms[i].k = "Some"

\* C23, amended: sequence takes the elements in order up to and including the
\* first Nothing and none after it, and all of them when there is no
\* Nothing; so every element is taken, once, exactly when no element but
\* the last is a Nothing.
C23_TakenToFirstNothing ==
    (Len(hist) = 1 /\ Last.op = "sequence") =>
        LET ms == subject.items
            first == FirstNothing(ms, 1)
        IN  /\ first <= Len(ms) => taken = first
            /\ first > Len(ms) => taken = Len(ms)
            /\ taken = Len(ms) <=> first >= Len(ms)

\* C23 witness: the only Nothing stands last, after a Some: every element
\* was taken and the result is Nothing
C23_Witness ==
    /\ Len(hist) = 1 /\ Last.op = "sequence"
    /\ Len(subject.items) = MaxLen /\ FirstNothing(subject.items, 1) = MaxLen
    /\ taken = MaxLen /\ out = Ret(Nothing)

\* C24: maybe_next on an iterator with elements e1, ..., en left (n >= 1)
\* returns Some(e1), also for a None e1, and takes one element, so that
\* e2, ..., en are left; with no element left it returns Nothing() and does
\* not raise StopIteration.
C24_MaybeNext ==
    (Len(hist) = 1 /\ Last.op = "maybe_next" /\ subject.k = "list") =>
        LET es == subject.items
        IN  /\ es # <<>> => (out = Ret(Some(es[1])) /\ taken = 1)
            /\ es = <<>> => (out = Ret(Nothing) /\ taken = 0)

\* C24 witness: the first element None of two came back as Some(None)
C24_Witness ==
    /\ Len(hist) = 1 /\ Last.op = "maybe_next"
    /\ subject = ListV(<<NoneV, IntV(0)>>)
    /\ out = Ret(Some(NoneV)) /\ taken = 1

\* the expression is x.and_then(f).and_then(g) on the subject x
TwoBinds == Len(hist) = 2 /\ hist[1].op = "and_then" /\ hist[2].op = "and_then"

\* the expression is x.and_then(f) on the subject x
OneBind == Len(hist) = 1 /\ Last.op = "and_then"

\* C25: Maybe.and_then satisfies the monad laws with Some as unit:
\* Some(v).and_then(f) == f(v); m.and_then(Some) == m for every Maybe m; and
\* m.and_then(f).and_then(g) == m.and_then(v -> f(v).and_then(g)) for every
\* m, f and g (when f raises in the first and_then, the right-hand side
\* raises the same for every g).  The same for Result.and_then with Ok as unit.
C25_MonadLaws ==
    /\ (OneBind /\ subject.k \in {"Some", "Ok"}) =>
          out = Call(Last.args[1], subject.val)
    /\ (OneBind /\ IsMaybe(subject) /\ Last.args[1] = FuncV("wrap_some")) =>
          out = Ret(subject)
    /\ (OneBind /\ IsResult(subject) /\ Last.args[1] = FuncV("wrap_ok")) =>
          out = Ret(subject)
    /\ TwoBinds =>
          LET fg == BindThenV(hist[1].args[1], hist[2].args[1])
          IN  /\ IsMaybe(subject) => out = Maybe_and_then(subject, fg).out
              /\ IsResult(subject) => out = Result_and_then(subject, fg).out
    /\ (OneBind /\ out.k = "raise") =>
          /\ IsMaybe(subject) =>
                \A g \in MaybeBindFuncs :
                   out = Maybe_and_then(subject, BindThenV(Last.args[1], g)).out
          /\ IsResult(subject) =>
                \A g \in ResultBindFuncs :
                   out = Result_and_then(subject, BindThenV(Last.args[1], g)).out

\* C25 witness: Some(0).and_then(f).and_then(g) with f and g both adding one
\* gave Some(2)
C25_Witness ==
    /\ TwoBinds /\ subject = Some(IntV(0))
    /\ hist[1].args[1] = FuncV("some_inc") /\ hist[2].args[1] = FuncV("some_inc")
    /\ out = Ret(Some(IntV(2)))

\* the last call took a default, an alternative or an error that may be a
\* callable, and that argument
TakesDefault ==
    /\ hist # <<>> /\ (IsMaybe(recv) \/ IsResult(recv))
    /\ Last.op \in {"from_maybe", "from_maybe()", "map_or", "or_", "ok_or",
                    "unwrap_or"}

DefaultArg == IF Last.op = "map_or" THEN Last.args[2] ELSE Last.args[1]

\* the last call took a function argument that the failure variant leaves alone
TakesFunc ==
    /\ hist # <<>> /\ (IsMaybe(recv) \/ IsResult(recv))
    /\ Last.op \in {"map", "map_or", "and_then", "and_then_opt", "filter"}

\* how many times the last call invoked a callable of one of the roles
Invocations(roles) == Cardinality({i \in DOMAIN calls : calls[i] \in roles})

DefaultRoles == {"default", "mayb", "res", "err"}

FuncRoles == {"func", "predicate"}

\* C26: callable defaults are lazy: on a Some / Ok receiver the callable given
\* as default, alternative or error to from_maybe, map_or, or_, ok_or and
\* unwrap_or is never invoked; on a Nothing / Err receiver it is invoked
\* exactly once, and the function argument of map, map_or, and_then,
\* and_then_opt and filter is never invoked.
C26_LazyDefaults ==
    /\ (TakesDefault /\ recv.k \in {"Some", "Ok"}) =>
          Invocations(DefaultRoles) = 0
    /\ (TakesDefault /\ recv.k \in {"Nothing", "Err"} /\ Callable(DefaultArg)) =>
          Invocations(DefaultRoles) = 1
    /\ (TakesFunc /\ recv.k \in {"Nothing", "Err"}) =>
          Invocations(FuncRoles) = 0

\* C26 witness: Nothing().map_or(func, default=d) invoked the callable d, once,
\* and not func
C26_Witness ==
    /\ hist # <<>> /\ Last.op = "map_or" /\ recv = Nothing
    /\ Last.args[2] = ThunkV(IntV(1))
    /\ calls = <<"default">> /\ out = Ret(IntV(1))

=============================================================================
